---- MODULE Spec2Model ----
(***************************************************************************)
(* MuseMind backend (src/server/server.js): the express middleware chain,  *)
(* the POST /api/generate-poem handler with its single suspension point    *)
(* (the axios call to the Gemini API), and the two pure helpers            *)
(* buildPrompt and cleanPoem.                                              *)
(*                                                                         *)
(* JavaScript strings are sequences of one-character strings.  JavaScript  *)
(* values are records [t |-> <type tag>, ...].                             *)
(***************************************************************************)
EXTENDS Integers, Sequences, FiniteSets, TLC

VARIABLES
    GEMINI_API_KEY, \* process.env.GEMINI_API_KEY, read once at start-up
    pc,             \* per request: "idle", "awaiting" (in axios.post), "done"
    request,        \* per request: the request being served
    outbound,       \* per request: the axios.post calls issued, in order
    responses,      \* per request: the responses sent on res, in order
    settled,        \* per request: what axios.post settled to, once it has
    cpText,         \* cleanPoem: the text handed to the first pass
    cpPoem,         \* cleanPoem: the current text (after cpPasses passes)
    cpPasses,       \* cleanPoem: 0 before the first pass, 1 after it or later
    bpUserInput,    \* buildPrompt: argument userInput
    bpTheme,        \* buildPrompt: argument theme
    bpPrompt        \* buildPrompt: the value returned, once it has been called

vars == << GEMINI_API_KEY, pc, request, outbound, responses, settled,
           cpText, cpPoem, cpPasses, bpUserInput, bpTheme, bpPrompt >>

httpVars == << GEMINI_API_KEY, pc, request, outbound, responses, settled >>
cpVars == << cpText, cpPoem, cpPasses >>
bpVars == << bpUserInput, bpTheme, bpPrompt >>

(***************************************************************************)
(* Bounds                                                                  *)
(***************************************************************************)
NumRequests == 2     \* requests in flight at once
MaxHeadLines == 3    \* leading lines of a remote text, each of any LineKinds
MaxTailLines == 4    \* plain lines following them
MaxInputLen == 2     \* length of buildPrompt's userInput

(***************************************************************************)
(* JavaScript values                                                       *)
(***************************************************************************)
Undefined == [t |-> "undefined"]
Null == [t |-> "null"]
Str(s) == [t |-> "string", s |-> s]
Num(n) == [t |-> "number", n |-> n]
EmptyArray == [t |-> "array"]
Fn(name) == [t |-> "function", name |-> name]
ObjectPrototype == [t |-> "object", name |-> "Object.prototype"]

\* ToBoolean, as !v and v || w apply it
Truthy(v) ==
    CASE v.t = "undefined" -> FALSE
      [] v.t = "null" -> FALSE
      [] v.t = "string" -> v.s # << >>
      [] v.t = "number" -> v.n # 0
      [] OTHER -> TRUE

(***************************************************************************)
(* JavaScript strings                                                      *)
(***************************************************************************)
Min(S) == CHOOSE m \in S : \A n \in S : m <= n
Max(S) == CHOOSE m \in S : \A n \in S : m >= n

LowerChars == << "a", "b", "c", "d", "e", "f", "g", "h", "i", "j", "k", "l", "m",
                 "n", "o", "p", "q", "r", "s", "t", "u", "v", "w", "x", "y", "z" >>
UpperChars == << "A", "B", "C", "D", "E", "F", "G", "H", "I", "J", "K", "L", "M",
                 "N", "O", "P", "Q", "R", "S", "T", "U", "V", "W", "X", "Y", "Z" >>

\* Canonicalize of the regular expression flag i: the character upper-cased.
Canonicalize(c) ==
    IF \E i \in 1..Len(LowerChars) : LowerChars[i] = c
    THEN UpperChars[CHOOSE i \in 1..Len(LowerChars) : LowerChars[i] = c]
    ELSE c

\* The characters \s and String.prototype.trim treat as white space.
IsWhiteSpace(c) == c \in {" ", "\t", "\n", "\r", "\f"}

\* The characters the regular expression atom . does not match.
IsLineTerminator(c) == c \in {"\n", "\r"}

\* String.prototype.trim
Trim(s) ==
    LET keep == {i \in 1..Len(s) : ~IsWhiteSpace(s[i])}
    IN  IF keep = {} THEN << >> ELSE SubSeq(s, Min(keep), Max(keep))

\* Whether the literal lit occurs in s at index i (1-based), under flag i or not.
LiteralAt(s, i, lit, ignoreCase) ==
    /\ i >= 1
    /\ i + Len(lit) - 1 <= Len(s)
    /\ \A k \in 1..Len(lit) :
          IF ignoreCase
          THEN Canonicalize(s[i + k - 1]) = Canonicalize(lit[k])
          ELSE s[i + k - 1] = lit[k]

\* s.replace(/lit/g, ""): every match, found left to right from index i on, removed.
RECURSIVE RemoveLiteralFrom(_, _, _)
RemoveLiteralFrom(s, i, lit) ==
    IF i > Len(s) THEN << >>
    ELSE IF LiteralAt(s, i, lit, FALSE)
         THEN RemoveLiteralFrom(s, i + Len(lit), lit)
         ELSE << s[i] >> \o RemoveLiteralFrom(s, i + 1, lit)

\* String.prototype.split("\n")
RECURSIVE SplitFrom(_, _, _)
SplitFrom(s, i, cur) ==
    IF i > Len(s) THEN << cur >>
    ELSE IF s[i] = "\n"
         THEN << cur >> \o SplitFrom(s, i + 1, << >>)
         ELSE SplitFrom(s, i + 1, Append(cur, s[i]))

Split(s) == SplitFrom(s, 1, << >>)

\* Array.prototype.join("\n")
RECURSIVE Join(_)
Join(lines) ==
    IF lines = << >> THEN << >>
    ELSE IF Len(lines) = 1 THEN lines[1]
    ELSE lines[1] \o << "\n" >> \o Join(Tail(lines))

(***************************************************************************)
(* cleanPoem                                                               *)
(***************************************************************************)
StarStar == << "*", "*" >>
Star == << "*" >>
HeresLit == << "H", "e", "r", "e", "'", "s" >>
HereIsLit == << "H", "e", "r", "e", " ", "i", "s" >>
TitleLit == << "T", "i", "t", "l", "e" >>
PoemLit == << "P", "o", "e", "m" >>

\* The assertion ^ at index i: the start of the input, or with flag m the start
\* of a line.
StartAssertion(s, i, multiline) ==
    i = 1 \/ (multiline /\ i > 1 /\ IsLineTerminator(s[i - 1]))

\* /^(Here's|Here is).*?:\s*/i at index i: the index of the match's last
\* character, or 0 when there is no match there.
HereMatchEnd(s, i) ==
    LET p == IF LiteralAt(s, i, HeresLit, TRUE) THEN i + Len(HeresLit)
             ELSE IF LiteralAt(s, i, HereIsLit, TRUE) THEN i + Len(HereIsLit)
             ELSE 0
        colons == {j \in p..Len(s) :
                     /\ s[j] = ":"
                     /\ \A k \in p..(j - 1) : ~IsLineTerminator(s[k])}
        spaces(j) == {e \in j..Len(s) : \A k \in (j + 1)..e : IsWhiteSpace(s[k])}
    IN  IF ~StartAssertion(s, i, FALSE) \/ p = 0 \/ colons = {} THEN 0
        ELSE Max(spaces(Min(colons)))

\* text.replace(/^(Here's|Here is).*?:\s*/i, ""): no flag g, the first match only.
ReplaceHere(s) ==
    LET starts == {i \in 1..Len(s) : HereMatchEnd(s, i) > 0}
    IN  IF starts = {} THEN s
        ELSE SubSeq(s, 1, Min(starts) - 1)
               \o SubSeq(s, HereMatchEnd(s, Min(starts)) + 1, Len(s))

\* /^(Title|Poem):.*?\n/gi at index i: the index of the match's last character
\* (the line feed), or 0 when there is no match there.
TitleMatchEnd(s, i) ==
    LET p == IF LiteralAt(s, i, TitleLit \o << ":" >>, TRUE)
             THEN i + Len(TitleLit) + 1
             ELSE IF LiteralAt(s, i, PoemLit \o << ":" >>, TRUE)
             THEN i + Len(PoemLit) + 1
             ELSE 0
        feeds == {j \in p..Len(s) :
                     /\ s[j] = "\n"
                     /\ \A k \in p..(j - 1) : ~IsLineTerminator(s[k])}
    IN  IF ~StartAssertion(s, i, FALSE) \/ p = 0 \/ feeds = {} THEN 0
        ELSE Min(feeds)

\* text.replace(/^(Title|Poem):.*?\n/gi, ""): flag g, every match from left to
\* right, the search resuming after each match.
RECURSIVE ReplaceTitleFrom(_, _)
ReplaceTitleFrom(s, i) ==
    IF i > Len(s) THEN << >>
    ELSE IF TitleMatchEnd(s, i) > 0
         THEN ReplaceTitleFrom(s, TitleMatchEnd(s, i) + 1)
         ELSE << s[i] >> \o ReplaceTitleFrom(s, i + 1)

ReplaceTitle(s) == ReplaceTitleFrom(s, 1)

\* lines.filter((line) => line.trim().length > 0)
NonBlank(line) == Len(Trim(line)) > 0

\* The number of lines cleanPoem keeps.
MaxPoemLines == 5

\* Mutant of Truncate: the slice keeps one line too many.
TruncateOneMore(lines) ==
    IF Len(lines) > MaxPoemLines THEN SubSeq(lines, 1, MaxPoemLines + 1) ELSE lines

\* if (lines.length > 5) lines = lines.slice(0, 5)
Truncate(lines) ==
    IF Len(lines) > MaxPoemLines THEN SubSeq(lines, 1, MaxPoemLines) ELSE lines

\* Mutant of FinalTrim: the joined lines are returned untrimmed.
FinalTrimOmitted(s) == s

\* return lines.join("\n").trim()
FinalTrim(s) == Trim(s)

cleanPoem(text) ==
    LET t1 == Trim(text)
        t2 == RemoveLiteralFrom(RemoveLiteralFrom(t1, 1, StarStar), 1, Star)
        t3 == ReplaceHere(t2)
        t4 == ReplaceTitle(t3)
        lines == Truncate(SelectSeq(Split(t4), NonBlank))
    IN  FinalTrim(Join(lines))

(***************************************************************************)
(* The texts cleanPoem is applied to                                       *)
(***************************************************************************)
LineKinds ==
    { << >>,
      << " " >>,
      << "a" >>,
      << "*", " ", "b", "*", "*" >>,
      << "H", "e", "r", "e", "'", "s", ":" >>,
      << "h", "e", "r", "e", " ", "I", "S", ":", "c" >>,
      << "T", "i", "t", "l", "e", ":", " ", "t" >>,
      << "p", "o", "e", "m", ":", " ", "p" >> }

PlainLine == << "z" >>

SeqsUpTo(S, n) == UNION {[1..k -> S] : k \in 0..n}

Texts ==
    { Join(h \o [i \in 1..k |-> PlainLine]) :
        h \in SeqsUpTo(LineKinds, MaxHeadLines), k \in 0..MaxTailLines }

(***************************************************************************)
(* buildPrompt                                                             *)
(***************************************************************************)
lovelines == << "l", "o", "v", "e", "l", "i", "n", "e", "s" >>
moodverse == << "m", "o", "o", "d", "v", "e", "r", "s", "e" >>
soulscript == << "s", "o", "u", "l", "s", "c", "r", "i", "p", "t" >>

\* The properties every object literal inherits from Object.prototype.
ObjectPrototypeFunctions ==
    { << "c", "o", "n", "s", "t", "r", "u", "c", "t", "o", "r" >>,
      << "t", "o", "S", "t", "r", "i", "n", "g" >>,
      << "t", "o", "L", "o", "c", "a", "l", "e", "S", "t", "r", "i", "n", "g" >>,
      << "v", "a", "l", "u", "e", "O", "f" >>,
      << "h", "a", "s", "O", "w", "n", "P", "r", "o", "p", "e", "r", "t", "y" >>,
      << "i", "s", "P", "r", "o", "t", "o", "t", "y", "p", "e", "O", "f" >> }
ProtoKey == << "_", "_", "p", "r", "o", "t", "o", "_", "_" >>

\* ToPropertyKey of the value inside themeContexts[theme]
ToPropertyKey(v) ==
    CASE v.t = "string" -> v.s
      [] v.t = "undefined" -> << "u", "n", "d", "e", "f", "i", "n", "e", "d" >>
      [] v.t = "null" -> << "n", "u", "l", "l" >>

\* `${userInput}`: a prompt is the sequence of the template's literal chunks and
\* the characters of userInput between them.
Template(open, userInput) ==
    Str(<< open >> \o userInput.s \o << "\n", "Write the poem now:" >>)

\* The object literal themeContexts: its own properties.
themeContexts(userInput) ==
    [k \in {lovelines, moodverse, soulscript} |->
        CASE k = lovelines ->
               Template("You are a romantic poet. Write a beautiful, heartfelt love poem (exactly 5 lines) about: ", userInput)
          [] k = moodverse ->
               Template("You are an emotional poet. Write a deeply emotional poem (exactly 5 lines) that captures these feelings: ", userInput)
          [] k = soulscript ->
               Template("You are an inspirational poet. Write an uplifting, reflective affirmation poem (exactly 5 lines) about: ", userInput)]

\* obj[key]: an own property, else one found on the prototype chain, else
\* undefined.
GetProperty(own, key) ==
    IF key \in DOMAIN own THEN own[key]
    ELSE IF key \in ObjectPrototypeFunctions THEN Fn(key)
    ELSE IF key = ProtoKey THEN ObjectPrototype
    ELSE Undefined

\* return themeContexts[theme] || themeContexts["moodverse"]
buildPrompt(userInput, theme) ==
    LET found == GetProperty(themeContexts(userInput), ToPropertyKey(theme))
    IN  IF Truthy(found) THEN found
        ELSE GetProperty(themeContexts(userInput), moodverse)

(***************************************************************************)
(* The middleware chain                                                    *)
(***************************************************************************)
\* A request path is the sequence of its segments: /api/health is
\* << "api", "health" >>, / is << >>.
HealthPath == << "api", "health" >>
GeneratePoemPath == << "api", "generate-poem" >>

\* The files express.static finds under public/: / resolves to index.html.
StaticFiles == { << >>, << "index.html" >> }

\* app.use and app.get/app.post, in the order the calls are made.
Stack == << "cors", "express.json", "express.static", "GET /api/health",
            "POST /api/generate-poem", "404 handler", "GET *" >>

\* Whether a layer ends the request itself; otherwise it calls next().
Handles(layer, rq) ==
    CASE layer = "cors" -> rq.method = "OPTIONS"
      [] layer = "express.json" -> FALSE
      [] layer = "express.static" ->
            rq.method \in {"GET", "HEAD"} /\ rq.path \in StaticFiles
      [] layer = "GET /api/health" -> rq.method = "GET" /\ rq.path = HealthPath
      [] layer = "POST /api/generate-poem" ->
            rq.method = "POST" /\ rq.path = GeneratePoemPath
      [] layer = "404 handler" -> TRUE
      [] layer = "GET *" -> rq.method = "GET"

\* The layer that answers rq: the first of the stack that handles it.
Dispatch(rq) == Stack[Min({i \in 1..Len(Stack) : Handles(Stack[i], rq)})]

(***************************************************************************)
(* Responses                                                               *)
(***************************************************************************)
\* res.status(status).json(body)
Json(status, body) == [status |-> status, type |-> "json", body |-> body]

\* res.sendFile(file), and express.static serving a file
File(file) == [status |-> 200, type |-> "file", body |-> file]

\* new Date().toISOString(): the clock is not part of the model.
Timestamp == Str(<< "now" >>)

\* Lines 23-27
HealthBody ==
    [status |-> "ok", message |-> "MuseMind backend is running with Gemini API!",
     timestamp |-> Timestamp]

\* Lines 132-134
NotFoundResponse ==
    Json(404, [error |-> "Endpoint not found. Use POST /api/generate-poem."])

(***************************************************************************)
(* POST /api/generate-poem                                                 *)
(***************************************************************************)
TypeError(message) == [name |-> "TypeError", message |-> message]

\* Lines 37-69: the try block up to the await.  The result is the responses
\* returned with, the error thrown, or the axios.post call awaited.
TryUntilAwait(body, key) ==
    LET userInput == body.userInput
        theme == body.theme
    IN  IF ~Truthy(userInput)
        THEN [kind |-> "return",
              sent |-> << Json(400, [error |-> "Please provide your feelings or thoughts to generate a poem."]) >>]
        ELSE IF userInput.t # "string"
        THEN [kind |-> "throw", error |-> TypeError("userInput.trim is not a function")]
        ELSE IF Len(Trim(userInput.s)) = 0
        THEN [kind |-> "return",
              sent |-> << Json(400, [error |-> "Please provide your feelings or thoughts to generate a poem."]) >>]
        ELSE IF ~Truthy(key)
        THEN [kind |-> "return",
              sent |-> << Json(500, [error |-> "Server configuration error. Please contact support."]) >>]
        ELSE [kind |-> "await",
              call |-> [url |-> "generativelanguage.googleapis.com", key |-> key,
                        text |-> buildPrompt(userInput, theme), timeout |-> 30000]]

\* Lines 72-78: the shape test of response.data
HasCandidateText(data) ==
    /\ "candidates" \in DOMAIN data
    /\ Len(data.candidates) >= 1
    /\ "content" \in DOMAIN data.candidates[1]
    /\ "parts" \in DOMAIN data.candidates[1].content
    /\ Len(data.candidates[1].content.parts) >= 1

\* Lines 71-91: the try block after the await, given what axios.post settled to.
TryAfterAwait(result, theme) ==
    IF result.kind = "rejected"
    THEN [kind |-> "throw", error |-> result.error]
    ELSE LET data == result.response.data
         IN  IF data.t = "null"
             THEN [kind |-> "throw",
                   error |-> TypeError("Cannot read properties of null")]
             ELSE IF HasCandidateText(data)
             THEN LET part == data.candidates[1].content.parts[1]
                      text == IF "text" \in DOMAIN part THEN part.text ELSE Undefined
                  IN  IF text.t # "string"
                      THEN [kind |-> "throw",
                            error |-> TypeError("text.trim is not a function")]
                      ELSE [kind |-> "return",
                            sent |-> << Json(200, [success |-> TRUE,
                                                   poem |-> Str(cleanPoem(text.s)),
                                                   theme |-> theme,
                                                   timestamp |-> Timestamp]) >>]
             ELSE [kind |-> "throw",
                   error |-> [name |-> "Error",
                              message |-> "Unexpected response format from Gemini API"]]

\* Lines 98-102: the response for the status of the remote reply.
StatusResponse(status) ==
    IF status = 400
    THEN << Json(400, [error |-> "Invalid request to AI service."]) >>
    ELSE IF status = 401 \/ status = 403
    THEN << Json(500, [error |-> "Authentication failed."]) >>
    ELSE IF status = 429
    THEN << Json(429, [error |-> "Too many requests.", retryAfter |-> 10]) >>
    ELSE IF status = 503
    THEN << Json(503, [error |-> "Service unavailable.", retryAfter |-> 20]) >>
    ELSE << Json(500, [error |-> "Failed to generate poem."]) >>

\* Mutant of CatchBlock: the last else branch is missing, so an error with
\* neither a response nor the timeout code is answered with nothing.
CatchBlockNoElse(error) ==
    IF "response" \in DOMAIN error
    THEN StatusResponse(error.response.status)
    ELSE IF "code" \in DOMAIN error /\ error.code = "ECONNABORTED"
    THEN << Json(504, [error |-> "Request timed out."]) >>
    ELSE << >>

\* Mutant of CatchBlock: the timeout is not told apart from other failures.
CatchBlockNoTimeout(error) ==
    IF "response" \in DOMAIN error
    THEN StatusResponse(error.response.status)
    ELSE << Json(500, [error |-> "An unexpected error occurred."]) >>

\* Lines 92-108: the catch block; the responses it sends.
CatchBlock(error) ==
    IF "response" \in DOMAIN error
    THEN StatusResponse(error.response.status)
    ELSE IF "code" \in DOMAIN error /\ error.code = "ECONNABORTED"
    THEN << Json(504, [error |-> "Request timed out."]) >>
    ELSE << Json(500, [error |-> "An unexpected error occurred."]) >>

\* Mutant of Segment: a remote 503 is retried instead of answered.
SegmentRetry(outcome) ==
    CASE outcome.kind = "return" ->
            [pc |-> "done", sent |-> outcome.sent, calls |-> << >>]
      [] outcome.kind = "throw" ->
            IF "response" \in DOMAIN outcome.error /\ outcome.error.response.status = 503
            THEN [pc |-> "awaiting", sent |-> << >>, calls |-> << [retry |-> TRUE] >>]
            ELSE [pc |-> "done", sent |-> CatchBlock(outcome.error), calls |-> << >>]
      [] outcome.kind = "await" ->
            [pc |-> "awaiting", sent |-> << >>, calls |-> << outcome.call >>]

\* One run of the handler's synchronous code, from `outcome` of a try segment:
\* what was sent, what was called, and where the handler stands.
Segment(outcome) ==
    CASE outcome.kind = "return" ->
            [pc |-> "done", sent |-> outcome.sent, calls |-> << >>]
      [] outcome.kind = "throw" ->
            [pc |-> "done", sent |-> CatchBlock(outcome.error), calls |-> << >>]
      [] outcome.kind = "await" ->
            [pc |-> "awaiting", sent |-> << >>, calls |-> << outcome.call >>]

(***************************************************************************)
(* What arrives from outside                                               *)
(***************************************************************************)
ApiKeys == { Undefined, Str(<< >>), Str(<< "k" >>) }

UserInputs ==
    { Undefined, Null, Str(<< >>), Str(<< " ", "\n" >>), Str(<< " ", "j", "o", "y" >>),
      Num(0), Num(5), EmptyArray }

BodyThemes == { Undefined, Str(lovelines) }

NoBody == [userInput |-> Undefined, theme |-> Undefined]

Requests ==
    { [method |-> m, path |-> p, body |-> NoBody] :
        m \in {"GET"}, p \in { << >>, << "about" >>, HealthPath, << "api", "poems" >> } }
    \cup { [method |-> "POST", path |-> << "api", "poems" >>, body |-> NoBody],
           [method |-> "OPTIONS", path |-> GeneratePoemPath, body |-> NoBody] }
    \cup { [method |-> "POST", path |-> GeneratePoemPath,
            body |-> [userInput |-> u, theme |-> t]] :
            u \in UserInputs, t \in BodyThemes }

\* A text the Gemini API may return: a preamble, a title, emphasis, seven lines.
SamplePoem ==
    << "H", "e", "r", "e", " ", "i", "s", ":", "\n",
       "*", "*", "a", "*", "*", "\n", "\n", "b", "\n", "c", "\n", "d", "\n",
       "e", "\n", "f", "\n", "g" >>

GeminiData(parts) == [t |-> "object", candidates |-> << [content |-> [parts |-> parts]] >>]

\* The statuses outside 2xx, for which axios rejects with error.response set.
RemoteStatuses == {400, 401, 403, 404, 429, 500, 503}

\* What axios.post settles to: resolved on a 2xx reply, else rejected.
AxiosOutcomes ==
    { [kind |-> "resolved", response |-> [status |-> 200, data |-> d]] :
        d \in { GeminiData(<< [text |-> Str(SamplePoem)] >>),
                GeminiData(<< [role |-> "model"] >>),
                [t |-> "object", promptFeedback |-> "SAFETY"],
                Null } }
    \cup { [kind |-> "rejected",
            error |-> [name |-> "AxiosError", code |-> "ERR_BAD_RESPONSE",
                       response |-> [status |-> st]]] : st \in RemoteStatuses }
    \cup { [kind |-> "rejected", error |-> [name |-> "AxiosError", code |-> c]] :
             c \in {"ECONNABORTED", "ECONNRESET"} }

NotSettled == [kind |-> "pending"]

(***************************************************************************)
(* The server                                                              *)
(***************************************************************************)
CleanIdle ==
    /\ cpText = << >>
    /\ cpPoem = << >>
    /\ cpPasses = 0

PromptIdle ==
    /\ bpUserInput = Str(<< >>)
    /\ bpTheme = Undefined
    /\ bpPrompt = [t |-> "notcalled"]

HttpIdle ==
    /\ GEMINI_API_KEY = Undefined
    /\ pc = [r \in 1..NumRequests |-> "idle"]
    /\ request = [r \in 1..NumRequests |-> [method |-> "NONE"]]
    /\ outbound = [r \in 1..NumRequests |-> << >>]
    /\ responses = [r \in 1..NumRequests |-> << >>]
    /\ settled = [r \in 1..NumRequests |-> NotSettled]

Init ==
    /\ GEMINI_API_KEY \in ApiKeys
    /\ pc = [r \in 1..NumRequests |-> "idle"]
    /\ request = [r \in 1..NumRequests |-> [method |-> "NONE"]]
    /\ outbound = [r \in 1..NumRequests |-> << >>]
    /\ responses = [r \in 1..NumRequests |-> << >>]
    /\ settled = [r \in 1..NumRequests |-> NotSettled]
    /\ CleanIdle
    /\ PromptIdle

\* What the layer answering rq does in the turn the request arrives in.
Serve(rq, key) ==
    LET layer == Dispatch(rq)
    IN  CASE layer = "cors" ->
                [pc |-> "done", sent |-> << [status |-> 204, type |-> "empty", body |-> "" ] >>,
                 calls |-> << >>]
          [] layer = "express.static" ->
                [pc |-> "done", sent |-> << File("index.html") >>, calls |-> << >>]
          [] layer = "GET /api/health" ->
                [pc |-> "done", sent |-> << Json(200, HealthBody) >>, calls |-> << >>]
          [] layer = "POST /api/generate-poem" -> Segment(TryUntilAwait(rq.body, key))
          [] layer = "404 handler" ->
                [pc |-> "done", sent |-> << NotFoundResponse >>, calls |-> << >>]
          [] layer = "GET *" ->
                [pc |-> "done", sent |-> << File("index.html") >>, calls |-> << >>]

\* A request arrives and runs through the chain until a layer answers it or
\* the handler suspends in axios.post.
HandleRequest(r, rq) ==
    /\ pc[r] = "idle"
    /\ LET step == Serve(rq, GEMINI_API_KEY)
       IN  /\ pc' = [pc EXCEPT ![r] = step.pc]
           /\ responses' = [responses EXCEPT ![r] = @ \o step.sent]
           /\ outbound' = [outbound EXCEPT ![r] = @ \o step.calls]
    /\ request' = [request EXCEPT ![r] = rq]
    /\ UNCHANGED << GEMINI_API_KEY, settled, cpVars, bpVars >>

\* axios.post settles (a reply, an error status, the 30 s timeout, a network
\* failure) and the handler resumes to its end.
AxiosSettles(r, o) ==
    /\ pc[r] = "awaiting"
    /\ LET step == Segment(TryAfterAwait(o, request[r].body.theme))
       IN  /\ pc' = [pc EXCEPT ![r] = step.pc]
           /\ responses' = [responses EXCEPT ![r] = @ \o step.sent]
           /\ outbound' = [outbound EXCEPT ![r] = @ \o step.calls]
    /\ settled' = [settled EXCEPT ![r] = o]
    /\ UNCHANGED << GEMINI_API_KEY, request, cpVars, bpVars >>

Next ==
    \E r \in 1..NumRequests :
        \/ \E rq \in Requests : HandleRequest(r, rq)
        \/ \E o \in AxiosOutcomes : AxiosSettles(r, o)

Spec == Init /\ [][Next]_vars

(***************************************************************************)
(* cleanPoem on its own                                                    *)
(***************************************************************************)
InitClean ==
    /\ cpText \in Texts
    /\ cpPoem = cpText
    /\ cpPasses = 0
    /\ HttpIdle
    /\ PromptIdle

\* generatedPoem = cleanPoem(generatedPoem), and again on its own result
CleanPass ==
    /\ cpPoem' = cleanPoem(cpPoem)
    /\ cpPasses' = IF cpPasses = 0 THEN 1 ELSE cpPasses
    /\ UNCHANGED << cpText, httpVars, bpVars >>

NextClean == CleanPass

SpecClean == InitClean /\ [][NextClean]_vars

(***************************************************************************)
(* buildPrompt on its own                                                  *)
(***************************************************************************)
PromptChars == {"a", " ", ":"}

PromptThemes ==
    { Undefined, Null, Str(<< >>), Str(lovelines), Str(moodverse), Str(soulscript),
      Str(<< "h", "a", "i", "k", "u" >>),
      Str(<< "L", "o", "v", "e", "l", "i", "n", "e", "s" >>),
      Str(<< "c", "o", "n", "s", "t", "r", "u", "c", "t", "o", "r" >>),
      Str(<< "t", "o", "S", "t", "r", "i", "n", "g" >>),
      Str(ProtoKey) }

InitPrompt ==
    /\ bpUserInput \in {Str(s) : s \in SeqsUpTo(PromptChars, MaxInputLen)}
    /\ bpTheme \in PromptThemes
    /\ bpPrompt = [t |-> "notcalled"]
    /\ HttpIdle
    /\ CleanIdle

\* const prompt = buildPrompt(userInput, theme)
BuildPrompt ==
    /\ bpPrompt.t = "notcalled"
    /\ bpPrompt' = buildPrompt(bpUserInput, bpTheme)
    /\ UNCHANGED << bpUserInput, bpTheme, httpVars, cpVars >>

NextPrompt == BuildPrompt

SpecPrompt == InitPrompt /\ [][NextPrompt]_vars

(***************************************************************************)
(* Properties                                                              *)
(***************************************************************************)
\* Request r has arrived and is served by the poem handler.
IsGenerate(r) ==
    pc[r] # "idle" /\ Dispatch(request[r]) = "POST /api/generate-poem"

\* userInput is a string that is non-empty after trimming.
ValidUserInput(u) == u.t = "string" /\ \E i \in 1..Len(u.s) : ~IsWhiteSpace(u.s[i])

\* A success result: 200 with success, poem, theme and timestamp.
IsSuccessResult(resp) ==
    /\ resp.status = 200
    /\ resp.type = "json"
    /\ DOMAIN resp.body = {"success", "poem", "theme", "timestamp"}
    /\ resp.body.success = TRUE

\* An error response: a JSON body with an error field.
IsErrorResponse(resp) ==
    /\ resp.type = "json"
    /\ "error" \in DOMAIN resp.body
    /\ resp.status # 200

\* C1: every POST /api/generate-poem request gets exactly one response once the
\* handler has run to its end, and none before; that response is either a
\* success result or an error response, never both.
C1_ExactlyOneResponse ==
    \A r \in 1..NumRequests :
        IsGenerate(r) =>
            /\ Len(responses[r]) <= 1
            /\ pc[r] = "done" <=> Len(responses[r]) = 1
            /\ \A i \in 1..Len(responses[r]) :
                  IsSuccessResult(responses[r][i]) # IsErrorResponse(responses[r][i])

\* C1 witness: one request answered with a success result and another with an
\* error response after its remote call failed.
C1_Witness ==
    \E r1, r2 \in 1..NumRequests :
        /\ IsGenerate(r1) /\ IsGenerate(r2)
        /\ settled[r1].kind = "resolved"
        /\ Len(responses[r1]) = 1 /\ IsSuccessResult(responses[r1][1])
        /\ settled[r2].kind = "rejected"
        /\ Len(responses[r2]) = 1 /\ IsErrorResponse(responses[r2][1])

\* C2 (as claimed): a POST /api/generate-poem request whose userInput is not a
\* string non-empty after trimming is answered 400 with an error payload, and no
\* outbound call is made.
C2_InvalidInputIs400 ==
    \A r \in 1..NumRequests :
        (IsGenerate(r) /\ ~ValidUserInput(request[r].body.userInput)) =>
            /\ pc[r] = "done"
            /\ outbound[r] = << >>
            /\ Len(responses[r]) = 1
            /\ responses[r][1].status = 400
            /\ IsErrorResponse(responses[r][1])

\* The status the claim gives for what the remote call ended in.
ClaimedStatus(o) ==
    IF o.kind = "rejected" /\ "response" \in DOMAIN o.error
    THEN CASE o.error.response.status = 400 -> 400
           [] o.error.response.status \in {401, 403} -> 500
           [] o.error.response.status = 429 -> 429
           [] o.error.response.status = 503 -> 503
           [] OTHER -> 500
    ELSE IF o.kind = "rejected" /\ o.error.code = "ECONNABORTED" THEN 504
    ELSE 500

\* The reply has the expected shape {candidates: [{content: {parts: [{text:
\* string}]}}]}.
HasText(data) ==
    /\ "candidates" \in DOMAIN data /\ data.candidates # << >>
    /\ "content" \in DOMAIN data.candidates[1]
    /\ "parts" \in DOMAIN data.candidates[1].content
    /\ data.candidates[1].content.parts # << >>
    /\ "text" \in DOMAIN data.candidates[1].content.parts[1]
    /\ data.candidates[1].content.parts[1].text.t = "string"

\* The remote call failed: it was rejected, or its reply lacks that shape.
RemoteFailed(o) ==
    o.kind = "rejected" \/ (o.kind = "resolved" /\ ~HasText(o.response.data))

\* C3: the response to a failed remote call has the status the table gives
\* (400 -> 400, 401/403 -> 500, 429 -> 429, 503 -> 503, other -> 500, timeout
\* -> 504, anything else -> 500); retryAfter is 10 on 429, 20 on 503 and absent
\* from every other response of the handler.
C3_ErrorMapping ==
    \A r \in 1..NumRequests :
        IsGenerate(r) =>
            /\ (settled[r] # NotSettled /\ RemoteFailed(settled[r])) =>
                  /\ Len(responses[r]) = 1
                  /\ responses[r][1].status = ClaimedStatus(settled[r])
                  /\ IsErrorResponse(responses[r][1])
            /\ \A i \in 1..Len(responses[r]) :
                  LET resp == responses[r][i]
                  IN  /\ "retryAfter" \in DOMAIN resp.body <=> resp.status \in {429, 503}
                      /\ resp.status = 429 => resp.body.retryAfter = 10
                      /\ resp.status = 503 => resp.body.retryAfter = 20

\* C3 witness: one request answered 429 with retryAfter 10 after a remote 429,
\* another answered 504 after the timeout.
C3_Witness ==
    \E r1, r2 \in 1..NumRequests :
        /\ IsGenerate(r1) /\ IsGenerate(r2)
        /\ settled[r1].kind = "rejected"
        /\ "response" \in DOMAIN settled[r1].error
        /\ settled[r1].error.response.status = 429
        /\ responses[r1] = << Json(429, [error |-> "Too many requests.", retryAfter |-> 10]) >>
        /\ settled[r2].kind = "rejected"
        /\ "response" \notin DOMAIN settled[r2].error
        /\ settled[r2].error.code = "ECONNABORTED"
        /\ Len(responses[r2]) = 1 /\ responses[r2][1].status = 504

\* C4 (as claimed): with no credential configured, a request with a valid
\* userInput is answered 500 with the server-configuration message and no
\* outbound call, and a request with an invalid userInput is answered 400.
C4_MissingCredential ==
    \A r \in 1..NumRequests :
        (IsGenerate(r) /\ ~Truthy(GEMINI_API_KEY)) =>
            /\ pc[r] = "done"
            /\ outbound[r] = << >>
            /\ Len(responses[r]) = 1
            /\ IF ValidUserInput(request[r].body.userInput)
               THEN responses[r][1] =
                       Json(500, [error |-> "Server configuration error. Please contact support."])
               ELSE responses[r][1].status = 400

\* The path lies under /api/.
UnderApi(path) == Len(path) >= 1 /\ path[1] = "api"

\* C5 (as claimed): a GET request that matches no API route and no static file
\* and does not lie under /api/ is answered with index.html, and the 404 JSON
\* error is sent only to requests under /api/.
C5_SpaFallback ==
    \A r \in 1..NumRequests :
        pc[r] = "done" =>
            /\ (/\ request[r].method = "GET"
                /\ request[r].path \notin StaticFiles
                /\ ~UnderApi(request[r].path))
                  => responses[r] = << File("index.html") >>
            /\ responses[r] = << NotFoundResponse >> => UnderApi(request[r].path)

\* C6, in every state: at most one outbound call per request, and only for a
\* request whose userInput is valid with the credential configured.
C6_CallGuarded ==
    \A r \in 1..NumRequests :
        /\ Len(outbound[r]) <= 1
        /\ outbound[r] # << >> =>
              /\ IsGenerate(r)
              /\ ValidUserInput(request[r].body.userInput)
              /\ Truthy(GEMINI_API_KEY)

\* C6, in every step: the step in which the remote call fails sends the error
\* response and issues no call; and no call is issued once the handler is done.
C6_NoRetryStep ==
    \A r \in 1..NumRequests :
        /\ (settled[r] = NotSettled /\ settled'[r].kind = "rejected") =>
              /\ pc[r] = "awaiting"
              /\ outbound'[r] = outbound[r]
              /\ pc'[r] = "done"
              /\ Len(responses'[r]) = 1
              /\ IsErrorResponse(responses'[r][1])
        /\ pc[r] = "done" => (outbound'[r] = outbound[r] /\ pc'[r] = "done")

\* C6: at most one outbound call per request, issued only after the input
\* validation and the credential check have passed; once it fails the next step
\* is the error response and no further call is made.
C6_SingleCallNoRetry == [] C6_CallGuarded /\ [][C6_NoRetryStep]_vars

\* C6 witness: a request whose one remote call failed and that is done.
C6_Witness ==
    \E r \in 1..NumRequests :
        /\ settled[r].kind = "rejected"
        /\ Len(outbound[r]) = 1
        /\ pc[r] = "done"
        /\ Len(responses[r]) = 1 /\ IsErrorResponse(responses[r][1])

\* The text begins with a clause or line a further pass of cleanPoem strips.
HasLeadingClause(s) == HereMatchEnd(s, 1) > 0 \/ TitleMatchEnd(s, 1) > 0

\* C7 (as claimed): cleanPoem is idempotent: a pass over the result of a pass
\* changes nothing.
C7_Idempotent == cpPasses >= 1 => cleanPoem(cpPoem) = cpPoem

\* C7 (amended): a pass over the result of a pass changes nothing unless that
\* result itself begins with a "Here's ...:" / "Here is ...:" clause or a
\* "Title:" / "Poem:" line.
C7_IdempotentWithoutLeadingClause ==
    (cpPasses >= 1 /\ ~HasLeadingClause(cpPoem)) => cleanPoem(cpPoem) = cpPoem

\* C7 witness: a text with a leading clause and more than 5 non-blank lines
\* whose cleaned result, different from it, begins with no clause.
C7_Witness ==
    /\ cpPasses >= 1
    /\ HasLeadingClause(cpText)
    /\ Len(SelectSeq(Split(cpText), NonBlank)) > MaxPoemLines
    /\ cpPoem # cpText
    /\ ~HasLeadingClause(cpPoem)
    /\ cleanPoem(cpPoem) = cpPoem

\* C8 (as claimed): for a theme that is none of lovelines, moodverse and
\* soulscript, buildPrompt returns what it returns for the theme moodverse.
C8_UnrecognizedThemeIsDefault ==
    (/\ bpPrompt.t # "notcalled"
     /\ ~(bpTheme.t = "string" /\ bpTheme.s \in {lovelines, moodverse, soulscript}))
        => bpPrompt = buildPrompt(bpUserInput, Str(moodverse))

\* The lines of a poem; the empty poem has none.
PoemLines(s) == IF s = << >> THEN << >> ELSE Split(s)

\* C9: the output of cleanPoem holds no asterisk and at most 5 lines, each
\* with a character that is not white space.
C9_NoMarkerAtMostFiveLines ==
    cpPasses >= 1 =>
        /\ \A i \in 1..Len(cpPoem) : cpPoem[i] # "*"
        /\ Len(PoemLines(cpPoem)) <= 5
        /\ \A n \in 1..Len(PoemLines(cpPoem)) :
              \E i \in 1..Len(PoemLines(cpPoem)[n]) :
                  ~IsWhiteSpace(PoemLines(cpPoem)[n][i])

\* C9 witness: a text with an asterisk, a blank line and more than 5 non-blank
\* lines, cleaned to exactly 5 lines.
C9_Witness ==
    /\ cpPasses >= 1
    /\ \E i \in 1..Len(cpText) : cpText[i] = "*"
    /\ \E n \in 1..Len(Split(cpText)) : ~NonBlank(Split(cpText)[n])
    /\ Len(SelectSeq(Split(cpText), NonBlank)) > 5
    /\ Len(PoemLines(cpPoem)) = 5

\* The line begins with "Title:" or "Poem:", in any letter case.
IsTitleLine(line) ==
    \/ LiteralAt(line, 1, TitleLit \o << ":" >>, TRUE)
    \/ LiteralAt(line, 1, PoemLit \o << ":" >>, TRUE)

\* C10 (as claimed): no line of the output of cleanPoem begins with "Title:" or
\* "Poem:".
C10_NoTitleLine ==
    cpPasses >= 1 =>
        \A n \in 1..Len(PoemLines(cpPoem)) : ~IsTitleLine(PoemLines(cpPoem)[n])

====
